---- MODULE Spec2Model ----
(***************************************************************************)
(* Model of kjiwa/amcrest-downloader:                                      *)
(*   - the search of recordings (AmcrestClient.find_recordings and the     *)
(*     batch parser, src/amcrest_api.py) against a device that answers or  *)
(*     fails each request;                                                 *)
(*   - the retrieval pipeline (RecordingDownloader, src/downloader.py)     *)
(*     with its worker pool, and the fetch of one recording                *)
(*     (AmcrestClient.download_recording);                                 *)
(*   - the derivation and the ordering of the output file names;           *)
(*   - the batch parser (_parse_recordings) one line at a time, on the     *)
(*     responses of a device that lists the fields of an entry in any      *)
(*     order and may leave fields out;                                     *)
(*   - the await loop of the pipeline one statement at a time, between     *)
(*     the steps of the worker threads.                                    *)
(*                                                                         *)
(* Text is modelled as sequences of code points, so that formatting,       *)
(* parsing and comparison are computed, not assumed.                       *)
(***************************************************************************)
EXTENDS Integers, Sequences, FiniteSets, TLC

\* ------------------------------------------------------------------ bounds
\* Most recordings handed to one download_all call.
MaxRecordings == 2
\* Largest pool size (max_concurrent) tried.
MaxConcurrent == 2
\* Chunks the payload of one recording is streamed in.
NumChunks == 2
\* Start times of recordings are drawn from 0..MaxStart (seconds after
\* midnight of one fixed day).
MaxStart == 1
\* Times of a search range and of the device's entries are drawn from
\* 0..MaxTime.
MaxTime == 1
\* findNextFile requests the device answers with more entries before it must
\* report the end.
MaxBatches == 2
\* Channels searched are drawn from 0..MaxChannel.
MaxChannel == 1
\* Positions in the input of download_all are tried up to this many digits.
MaxIndexDigits == 5

\* ------------------------------------------------------- program constants
\* RecordingDownloader.DEFAULT_MAX_RETRIES
DEFAULT_MAX_RETRIES == 3
\* Minimum width of the index in "recording_{index:04d}_..."
IndexWidth == 4

None == "None"

\* ------------------------------------------------------------------- state
VARIABLES
    \* --- download_all: the calling thread
    dl_pc,            \* "idle" | "submit" | "await" | "shutdown" | "returned" | "raised"
    recordings,       \* the input sequence; a Recording is modelled by its start_time
    max_concurrent,   \* RecordingDownloader._max_concurrent
    dir_created,      \* output_dir.mkdir has run
    pool_created,     \* a ThreadPoolExecutor has been constructed
    threads,          \* live worker threads of the pool
    work_queue,       \* the pool's FIFO of submitted, not yet started tasks
    submitted,        \* how many tasks the submit loop has dispatched
    executor,         \* the local variable `executor` of _await_completion
    yielded,          \* futures as_completed has already yielded
    downloaded_files, \* the success-accumulation list
    completed,        \* the progress counter
    total,            \* len(futures)
    pending_exc,      \* exception travelling through the finally block, or None
    progress_log,     \* calls of the progress sink, <<completed, total>> each
    result,           \* what download_all returned
    \* --- one entry per task (index into recordings, 0-based)
    status,           \* "new" | "queued" | "running" | "done_ok" | "done_false" | "done_err"
    attempt,          \* loop variable of _download_with_retry
    outcomes,         \* outcome of every finished fetch attempt, in order
    written,          \* -1 before the response arrived, else chunks written so far
    file,             \* destination path: [state: "absent" | "stale" | "written", chunks]
    \* --- the loop of _await_completion, one statement at a time
    future,           \* the task of the loop variable `future`, -1 outside the loop body
    \* --- find_recordings (search)
    s_pc,             \* "idle" | "find" | "next" | "close" | "returned" | "raised"
    time_range,       \* the TimeRange argument
    channel,          \* the channel argument
    requests,         \* every request sent to mediaFileFind.cgi, in order
    object_id,        \* the cursor id parsed from the create response, <<>> before
    create_text,      \* the body of the create response, once it arrived
    find_text,        \* the text of the findFile response, once it arrived
    batches,          \* every findNextFile response that arrived, and what was parsed from it
    s_recordings,     \* the list `recordings` of _collect_all_batches
    s_error,          \* the exception find_recordings raised
    s_result,         \* what find_recordings returned
    \* --- file names of two tasks of one long download_all call
    n_pc,             \* "idle" | "named" | "collected" | "sorted"
    n_index,          \* the positions <<i, j>>, i < j, of two recordings of the input
    n_files,          \* their output files, in input order
    n_downloaded,     \* downloaded_files, in the order the two tasks completed
    n_result,         \* sorted(downloaded_files)
    \* --- _parse_recordings, one line at a time
    p_pc,             \* "idle" | "loop" | "done" | "raised"
    p_entries,        \* the entries the device reports: the fields each one lists, in order
    p_lines,          \* the lines of the response text
    p_pos,            \* the line the loop is at, from 1
    p_current_file,   \* the dict `current_file`
    p_recordings,     \* the list `recordings`
    p_cuts            \* the lines at which an entry was made final, Len(p_lines) + 1 for the flush

dlvars == <<dl_pc, recordings, max_concurrent, dir_created, pool_created, threads,
            work_queue, submitted, executor, yielded, downloaded_files, completed,
            total, pending_exc, progress_log, result>>
taskvars == <<status, attempt, outcomes, written, file>>
svars == <<s_pc, time_range, channel, requests, object_id, create_text, find_text,
           batches, s_recordings, s_error, s_result>>
nvars == <<n_pc, n_index, n_files, n_downloaded, n_result>>
loopvars == <<future>>
pvars == <<p_pc, p_entries, p_lines, p_pos, p_current_file, p_recordings, p_cuts>>
vars == <<dlvars, taskvars, loopvars, svars, nvars, pvars>>

Tasks == 0 .. (MaxRecordings - 1)
Indices(recs) == 0 .. (Len(recs) - 1)

\* ----------------------------------------------------- text and file names
RECURSIVE Digits(_)
\* Decimal digits of a natural number, most significant first.
Digits(n) == IF n < 10 THEN <<48 + n>> ELSE Digits(n \div 10) \o <<48 + (n % 10)>>

RECURSIVE ZeroPad(_, _)
\* Left-pad with "0" up to a minimum width; wider text is left as it is.
ZeroPad(s, w) == IF Len(s) >= w THEN s ELSE ZeroPad(<<48>> \o s, w)

\* format(n, "0<w>d")
FormatInt(n, w) == ZeroPad(Digits(n), w)

\* start_time.strftime("%Y%m%d_%H%M%S") for a time t seconds after midnight
\* of 2024-01-01.
Strftime(t) ==
    <<50, 48, 50, 52, 48, 49, 48, 49, 95>>
        \o FormatInt(t \div 3600, 2)
        \o FormatInt((t \div 60) % 60, 2)
        \o FormatInt(t % 60, 2)

\* Mutant of GenerateFilename: the name is derived from the start time alone.
GenerateFilenameByTime(start_time, index) ==
    <<114, 101, 99, 111, 114, 100, 105, 110, 103, 95>>
        \o Strftime(start_time)
        \o <<46, 109, 112, 52>>

\* The last component of output_dir / f"recording_{index:04d}_{timestamp}.mp4";
\* the directory part is the same for every task of one call.
GenerateFilename(start_time, index) ==
    <<114, 101, 99, 111, 114, 100, 105, 110, 103, 95>>
        \o FormatInt(index, IndexWidth)
        \o <<95>>
        \o Strftime(start_time)
        \o <<46, 109, 112, 52>>

RECURSIVE StrLess(_, _)
\* a < b for text: code point by code point, a proper prefix being smaller.
StrLess(a, b) ==
    IF b = <<>> THEN FALSE
    ELSE IF a = <<>> THEN TRUE
    ELSE IF Head(a) # Head(b) THEN Head(a) < Head(b)
    ELSE StrLess(Tail(a), Tail(b))

RECURSIVE Insert(_, _)
Insert(p, s) ==
    IF s = <<>> THEN <<p>>
    ELSE IF StrLess(p, Head(s)) THEN <<p>> \o s
    ELSE <<Head(s)>> \o Insert(p, Tail(s))

RECURSIVE Sorted(_)
\* sorted(paths): ascending; stable for equal paths.
Sorted(s) == IF s = <<>> THEN <<>> ELSE Insert(s[Len(s)], Sorted(SubSeq(s, 1, Len(s) - 1)))

\* output_file of task i of the current call
OutputFile(i) == GenerateFilename(recordings[i + 1], i)

\* ------------------------------------------------------------ text helpers
IsSpace(c) == c \in {9, 10, 13, 32}

RECURSIVE LStrip(_)
LStrip(s) == IF s # <<>> /\ IsSpace(Head(s)) THEN LStrip(Tail(s)) ELSE s

RECURSIVE RStrip(_)
RStrip(s) ==
    IF s # <<>> /\ IsSpace(s[Len(s)]) THEN RStrip(SubSeq(s, 1, Len(s) - 1)) ELSE s

\* str.strip()
Strip(s) == RStrip(LStrip(s))

\* str.startswith(p)
StartsWith(s, p) == Len(s) >= Len(p) /\ SubSeq(s, 1, Len(p)) = p

\* `sub in s`
Contains(s, sub) ==
    \E k \in 1 .. (Len(s) - Len(sub) + 1) : SubSeq(s, k, k + Len(sub) - 1) = sub

\* str.lower(), on ASCII
LowerChar(c) == IF c >= 65 /\ c <= 90 THEN c + 32 ELSE c
Lower(s) == [k \in 1 .. Len(s) |-> LowerChar(s[k])]

\* s.split("=", 1)[1], for a text that holds "="
AfterEq(s) ==
    LET k == CHOOSE k \in 1 .. Len(s) : s[k] = 61 /\ \A m \in 1 .. (k - 1) : s[m] # 61
    IN  SubSeq(s, k + 1, Len(s))

IsDigits(s) == s # <<>> /\ \A k \in 1 .. Len(s) : s[k] >= 48 /\ s[k] <= 57

RECURSIVE DigitsValue(_)
DigitsValue(s) ==
    IF s = <<>> THEN 0 ELSE 10 * DigitsValue(SubSeq(s, 1, Len(s) - 1)) + (s[Len(s)] - 48)

\* int(s): surrounding white space is ignored; anything but decimal digits
\* raises ValueError (ok = FALSE).
ParseInt(s) ==
    LET t == Strip(s)
    IN  IF IsDigits(t) THEN [ok |-> TRUE, value |-> DigitsValue(t)]
        ELSE [ok |-> FALSE, value |-> 0]

\* strftime("%Y-%m-%d %H:%M:%S") for a time t seconds after midnight of
\* 2024-01-01.
StrftimeAmcrest(t) ==
    <<50, 48, 50, 52, 45, 48, 49, 45, 48, 49, 32>>
        \o FormatInt(t \div 3600, 2) \o <<58>>
        \o FormatInt((t \div 60) % 60, 2) \o <<58>>
        \o FormatInt(t % 60, 2)

\* Times of the modelled day that texts are parsed back to.
ParseableTimes == 0 .. (MaxTime + 1)

\* datetime.strptime(s, "%Y-%m-%d %H:%M:%S"): the time whose text s is, or
\* ValueError (ok = FALSE).
Strptime(s) ==
    LET hits == {t \in ParseableTimes : StrftimeAmcrest(t) = s}
    IN  IF hits # {} THEN [ok |-> TRUE, value |-> CHOOSE t \in hits : TRUE]
        ELSE [ok |-> FALSE, value |-> 0]

\* Mutant of ToAmcrestFormat: an aware datetime is converted to another zone
\* (here one second off) before it is formatted.
ToAmcrestFormatConverted(range) ==
    <<StrftimeAmcrest(range.start.t + (IF range.start.tz THEN 1 ELSE 0)),
      StrftimeAmcrest(range.end.t + (IF range.end.tz THEN 1 ELSE 0))>>

\* TimeRange.to_amcrest_format: tzinfo is dropped, not converted.
ToAmcrestFormat(range) ==
    <<StrftimeAmcrest(range.start.t), StrftimeAmcrest(range.end.t)>>

\* ------------------------------------------------------- the batch parser
K_result == <<114, 101, 115, 117, 108, 116, 61>>                 \* "result="
K_found == <<102, 111, 117, 110, 100, 61>>                       \* "found="
K_items == <<105, 116, 101, 109, 115, 91>>                       \* "items["
K_FilePath == <<46, 70, 105, 108, 101, 80, 97, 116, 104, 61>>    \* ".FilePath="
K_StartTime == <<46, 83, 116, 97, 114, 116, 84, 105, 109, 101, 61>> \* ".StartTime="
K_EndTime == <<46, 69, 110, 100, 84, 105, 109, 101, 61>>         \* ".EndTime="
K_Channel == <<46, 67, 104, 97, 110, 110, 101, 108, 61>>         \* ".Channel="
K_mp4 == <<46, 109, 112, 52>>                                    \* ".mp4"
K_ok == <<111, 107>>                                             \* "ok"

\* _parse_object_id: the stripped text after "result=" of the first such
\* line; found = FALSE stands for None.
RECURSIVE ParseObjectId(_)
ParseObjectId(lines) ==
    IF lines = <<>> THEN [found |-> FALSE, id |-> <<>>]
    ELSE IF StartsWith(Head(lines), K_result)
    THEN [found |-> TRUE, id |-> Strip(AfterEq(Head(lines)))]
    ELSE ParseObjectId(Tail(lines))

\* Mutant of IsFalsy: only a missing line counts, an empty id passes.
IsFalsyNoneOnly(r) == ~r.found

\* `if not object_id`
IsFalsy(r) == ~r.found \/ r.id = <<>>

\* _parse_recording_line: (key, value), key None for a line of no known
\* field; err when int() raises on the channel.
ParseRecordingLine(line) ==
    IF Contains(line, K_FilePath)
    THEN [key |-> "FilePath", value |-> AfterEq(line), err |-> FALSE]
    ELSE IF Contains(line, K_StartTime)
    THEN [key |-> "StartTime", value |-> AfterEq(line), err |-> FALSE]
    ELSE IF Contains(line, K_EndTime)
    THEN [key |-> "EndTime", value |-> AfterEq(line), err |-> FALSE]
    ELSE IF Contains(line, K_Channel)
    THEN LET n == ParseInt(AfterEq(line))
         IN  [key |-> "Channel", value |-> n.value, err |-> ~n.ok]
    ELSE [key |-> None, value |-> None, err |-> FALSE]

\* _is_complete_recording
IsCompleteRecording(file_data) ==
    "FilePath" \in DOMAIN file_data /\ "StartTime" \in DOMAIN file_data

\* _create_recording: ok = FALSE when it raises (a time that does not parse,
\* or no EndTime key).
CreateRecording(file_data) ==
    LET start_time == Strptime(file_data["StartTime"])
        end_time == Strptime(file_data["EndTime"])
    IN  IF start_time.ok /\ "EndTime" \in DOMAIN file_data /\ end_time.ok
        THEN [ok |-> TRUE,
              rec |-> [start_time |-> start_time.value,
                       end_time |-> end_time.value,
                       file_path |-> file_data["FilePath"],
                       channel |-> IF "Channel" \in DOMAIN file_data
                                   THEN file_data["Channel"] ELSE 0]]
        ELSE [ok |-> FALSE, rec |-> None]

\* _should_include_recording
ShouldIncludeRecording(rec) == Contains(rec.file_path, K_mp4)

\* The try block of _parse_recordings: the entry becomes a Recording and is
\* appended when it is to be included; any exception drops it.
Finalize(file_data, recs) ==
    LET made == CreateRecording(file_data)
    IN  IF made.ok /\ ShouldIncludeRecording(made.rec) THEN Append(recs, made.rec) ELSE recs

\* `line.startswith("items[") and self._is_complete_recording(current_file)`
IsBoundary(line, current_file) ==
    StartsWith(line, K_items) /\ IsCompleteRecording(current_file)

EmptyDict == [k \in {} |-> None]
DictSet(d, key, value) ==
    [k \in DOMAIN d \cup {key} |-> IF k = key THEN value ELSE d[k]]

RECURSIVE ParseLoop(_, _, _)
\* The loop of _parse_recordings and the flush after it; err when a line
\* makes _parse_recording_line raise.
ParseLoop(lines, current_file, recs) ==
    IF lines = <<>>
    THEN [err |-> FALSE,
          recs |-> IF IsCompleteRecording(current_file)
                   THEN Finalize(current_file, recs) ELSE recs]
    ELSE LET line == Strip(Head(lines))
         IN  IF line = <<>> \/ StartsWith(line, K_found)
             THEN ParseLoop(Tail(lines), current_file, recs)
             ELSE LET cut == IsBoundary(line, current_file)
                      recs1 == IF cut THEN Finalize(current_file, recs) ELSE recs
                      cur1 == IF cut THEN EmptyDict ELSE current_file
                      kv == ParseRecordingLine(line)
                  IN  IF kv.err THEN [err |-> TRUE, recs |-> <<>>]
                      ELSE ParseLoop(Tail(lines),
                                     IF kv.key # None
                                     THEN DictSet(cur1, kv.key, kv.value) ELSE cur1,
                                     recs1)

\* _parse_recordings
ParseRecordings(lines) == ParseLoop(lines, EmptyDict, <<>>)

\* _fetch_next_batch, after the response arrived: TRUE when the response text
\* is returned, FALSE when "" is.
HasMore(lines) ==
    LET first_line == IF lines = <<>> THEN <<>> ELSE Strip(lines[1])
        file_count == ParseInt(AfterEq(first_line))
    IN  /\ StartsWith(first_line, K_found)
        /\ file_count.ok
        /\ file_count.value # 0

\* ------------------------------------------------------ the device's answers
\* "items[<index>].<field>=<value>"
Item(index, field, value) ==
    K_items \o Digits(index) \o <<93, 46>> \o field \o <<61>> \o value
\* "found=<value>"
Found(value) == K_found \o value

F_FilePath == <<70, 105, 108, 101, 80, 97, 116, 104>>
F_StartTime == <<83, 116, 97, 114, 116, 84, 105, 109, 101>>
F_EndTime == <<69, 110, 100, 84, 105, 109, 101>>
F_Channel == <<67, 104, 97, 110, 110, 101, 108>>
F_Duration == <<68, 117, 114, 97, 116, 105, 111, 110>>
P_a_mp4 == <<47, 97, 46, 109, 112, 52>>      \* "/a.mp4"
P_b_mp4 == <<47, 98, 46, 109, 112, 52>>      \* "/b.mp4"
P_c_jpg == <<47, 99, 46, 106, 112, 103>>     \* "/c.jpg"

\* Bodies of the create response.
CreateBodies ==
    { <<>>,
      << <<69, 114, 114, 111, 114>> >>,                          \* "Error"
      << K_result >>,                                            \* "result="
      << K_result \o <<32>> >>,                                  \* "result= "
      << K_result \o <<55>> >>,                                  \* "result=7"
      << <<79, 75>>, K_result \o <<32, 56, 32>> >> }             \* "OK", "result= 8 "

\* Texts of the findFile response.
FindTexts ==
    { <<79, 75>>,                                                \* "OK"
      <<111, 107>>,                                              \* "ok"
      <<79, 107>>,                                               \* "Ok"
      <<69, 114, 114, 111, 114>>,                                \* "Error"
      <<>> }

\* Batches after which the loop stops at the first line.
BodyEnd == << Found(<<48>>) >>
BodyBadCount == << Found(<<120>>) >>
BodyNoFound == << <<69, 114, 114, 111, 114>> >>
EndBodies == {BodyEnd, BodyBadCount, BodyNoFound, <<>>}

\* One entry, its fields in the order the device lists them.
BodyOne(t) ==
    << Found(<<49>>),
       Item(0, F_Channel, <<49>>),
       Item(0, F_Duration, <<53>>),
       Item(0, F_EndTime, StrftimeAmcrest(t + 1)),
       Item(0, F_FilePath, P_a_mp4),
       Item(0, F_StartTime, StrftimeAmcrest(t)) >>

\* Two entries; the first lists its end time after its path and start time
\* and has no channel.
BodyTwo(t) ==
    << Found(<<50>>),
       Item(0, F_FilePath, P_a_mp4),
       Item(0, F_StartTime, StrftimeAmcrest(t)),
       Item(0, F_EndTime, StrftimeAmcrest(t)),
       Item(1, F_Channel, <<49>>),
       Item(1, F_EndTime, StrftimeAmcrest(t + 1)),
       Item(1, F_FilePath, P_b_mp4),
       Item(1, F_StartTime, StrftimeAmcrest(t)) >>

\* One entry that is no video.
BodyFiltered ==
    << Found(<<49>>),
       Item(0, F_EndTime, StrftimeAmcrest(1)),
       Item(0, F_FilePath, P_c_jpg),
       Item(0, F_StartTime, StrftimeAmcrest(0)) >>

\* An entry whose channel is no number.
BodyBadChannel ==
    << Found(<<49>>),
       Item(0, F_Channel, <<120>>),
       Item(0, F_FilePath, P_a_mp4) >>

\* An entry without start time, then a whole one.
BodyIncomplete ==
    << Found(<<50>>),
       Item(0, F_FilePath, P_a_mp4),
       Item(1, F_EndTime, StrftimeAmcrest(1)),
       Item(1, F_FilePath, P_b_mp4),
       Item(1, F_StartTime, StrftimeAmcrest(0)) >>

\* Two whole entries, their fields in the order the device lists them.
BodyPair ==
    << Found(<<50>>),
       Item(0, F_Channel, <<49>>),
       Item(0, F_EndTime, StrftimeAmcrest(1)),
       Item(0, F_FilePath, P_a_mp4),
       Item(0, F_StartTime, StrftimeAmcrest(0)),
       Item(1, F_Channel, <<49>>),
       Item(1, F_EndTime, StrftimeAmcrest(1)),
       Item(1, F_FilePath, P_b_mp4),
       Item(1, F_StartTime, StrftimeAmcrest(1)) >>

MoreBodies ==
    {BodyOne(t) : t \in 0 .. MaxTime}
        \cup {BodyTwo(0), BodyPair, BodyFiltered, BodyBadChannel, BodyIncomplete}

\* Arguments of find_recordings.
\* Ranges that end at MaxTime, aware or naive, and one reversed range; a
\* datetime is its time of day and whether it carries a tzinfo.
TimeRanges ==
    {[start |-> [t |-> a, tz |-> z], end |-> [t |-> MaxTime, tz |-> z]] :
        a \in 0 .. MaxTime, z \in BOOLEAN}
    \cup {[start |-> [t |-> MaxTime, tz |-> FALSE], end |-> [t |-> 0, tz |-> FALSE]]}

\* ---------------------------------------------------------- find_recordings
\* AmcrestClient.BATCH_SIZE
BATCH_SIZE == 100

NoError == [kind |-> "None", text |-> <<>>]
\* What _get raises: a transport failure, or raise_for_status on the status.
HTTPError == [kind |-> "HTTPError", text |-> <<>>]

Request(action, object, ok) ==
    [action |-> action, object |-> object, ok |-> ok, count |-> 0,
     channel |-> 0, start |-> <<>>, end |-> <<>>]

CountOf(action) == Cardinality({k \in 1 .. Len(requests) : requests[k].action = action})

\* Mutant of CloseFinderError: a failed destroy request is escalated.
CloseFinderErrorEscalated(ok) == IF ok THEN NoError ELSE HTTPError

\* _close_finder: `except Exception: pass` -- whatever the destroy request
\* does, nothing is raised.
CloseFinderError(ok) == NoError

\* _validate_search_response: `"ok" not in response_text.lower()`
IsRejected(response_text) == ~Contains(Lower(response_text), K_ok)

\* find_recordings up to the create response: the range is formatted, the
\* create request sent and the cursor id parsed from its response.
FindRecordings(range, ch, ok, body) ==
    /\ s_pc = "idle"
    /\ time_range' = range
    /\ channel' = ch
    /\ requests' = <<Request("factory.create", <<>>, ok)>>
    /\ create_text' = IF ok THEN [seen |-> TRUE, lines |-> body] ELSE create_text
    /\ IF ~ok
       THEN /\ s_pc' = "raised"
            /\ s_error' = HTTPError
            /\ UNCHANGED object_id
       ELSE IF IsFalsy(ParseObjectId(body))
       THEN /\ s_pc' = "raised"
            /\ s_error' = [kind |-> "CreateFailed", text |-> <<>>]
            /\ UNCHANGED object_id
       ELSE /\ s_pc' = "find"
            /\ object_id' = ParseObjectId(body).id
            /\ UNCHANGED s_error
    /\ UNCHANGED <<find_text, batches, s_recordings, s_result>>
    /\ UNCHANGED <<dlvars, taskvars, loopvars, nvars, pvars>>

\* _initiate_search: the findFile request and the check of its response; a
\* rejected search closes the finder and raises.
InitiateSearch(ok, text, destroy_ok) ==
    /\ s_pc = "find"
    /\ LET find == [Request("findFile", object_id, ok) EXCEPT
                        !.channel = channel,
                        !.start = ToAmcrestFormat(time_range)[1],
                        !.end = ToAmcrestFormat(time_range)[2]]
       IN  IF ~ok
           THEN /\ requests' = Append(requests, find)
                /\ s_pc' = "raised"
                /\ s_error' = HTTPError
                /\ UNCHANGED find_text
           ELSE IF IsRejected(text)
           THEN /\ requests' = requests \o <<find, Request("destroy", object_id, destroy_ok)>>
                /\ find_text' = [seen |-> TRUE, text |-> text]
                /\ s_pc' = "raised"
                /\ s_error' = IF CloseFinderError(destroy_ok) # NoError
                              THEN CloseFinderError(destroy_ok)
                              ELSE [kind |-> "SearchFailed", text |-> text]
           ELSE /\ requests' = Append(requests, find)
                /\ find_text' = [seen |-> TRUE, text |-> text]
                /\ s_pc' = "next"
                /\ UNCHANGED s_error
    /\ UNCHANGED <<time_range, channel, object_id, create_text, batches, s_recordings,
                   s_result>>
    /\ UNCHANGED <<dlvars, taskvars, loopvars, nvars, pvars>>

\* Mutant of IsEmptyBatch: a batch without recordings does not end the loop.
IsEmptyBatchNever(batch_recordings) == FALSE

\* _collect_all_batches: `if not batch_recordings: break`
IsEmptyBatch(batch_recordings) == batch_recordings = <<>>

\* Mutant of Extend: the batch is put in front of the list.
ExtendInFront(recs, batch_recordings) == batch_recordings \o recs

\* _collect_all_batches: `recordings.extend(batch_recordings)`
Extend(recs, batch_recordings) == recs \o batch_recordings

\* _fetch_next_batch and _parse_recordings on each response the device may
\* give to findNextFile.
FetchNextBatch == [lines \in MoreBodies \cup EndBodies |-> HasMore(lines)]
ParseBatch == [lines \in MoreBodies \cup EndBodies |-> ParseRecordings(lines)]

\* Mutant of WhileTrue: the loop gives up after MaxBatches batches.
WhileBounded(count) == count < MaxBatches

\* _collect_all_batches: `while True`, the loop condition after `count`
\* batches have been added.
WhileTrue(count) == TRUE

\* One pass of the loop of _collect_all_batches: a findNextFile request, the
\* check of its first line, the parse of the batch.
CollectBatch(ok, lines) ==
    /\ s_pc = "next"
    /\ CountOf("findNextFile") < MaxBatches \/ lines \in EndBodies
    /\ requests' = Append(requests,
                          [Request("findNextFile", object_id, ok) EXCEPT !.count = BATCH_SIZE])
    /\ LET next_response == FetchNextBatch[lines]
           batch_recordings == IF next_response THEN ParseBatch[lines]
                               ELSE [err |-> FALSE, recs |-> <<>>]
       IN  /\ batches' = IF ok
                         THEN Append(batches, [lines |-> lines,
                                               parsed |-> next_response,
                                               err |-> batch_recordings.err,
                                               recs |-> batch_recordings.recs])
                         ELSE batches
           /\ IF ~ok
              THEN /\ s_pc' = "raised"
                   /\ s_error' = HTTPError
                   /\ UNCHANGED s_recordings
              ELSE IF ~next_response
              THEN /\ s_pc' = "close"
                   /\ UNCHANGED <<s_error, s_recordings>>
              ELSE IF batch_recordings.err
              THEN /\ s_pc' = "raised"
                   /\ s_error' = [kind |-> "ValueError", text |-> <<>>]
                   /\ UNCHANGED s_recordings
              ELSE IF IsEmptyBatch(batch_recordings.recs)
              THEN /\ s_pc' = "close"
                   /\ UNCHANGED <<s_error, s_recordings>>
              ELSE /\ s_recordings' = Extend(s_recordings, batch_recordings.recs)
                   /\ s_pc' = IF WhileTrue(Len(batches')) THEN "next" ELSE "close"
                   /\ UNCHANGED s_error
    /\ UNCHANGED <<time_range, channel, object_id, create_text, find_text, s_result>>
    /\ UNCHANGED <<dlvars, taskvars, loopvars, nvars, pvars>>

\* Mutant of AfterCloseFinder: after the finder is closed the batches are
\* collected (the two calls of _fetch_recordings in the wrong order).
AfterCloseFinderCollect == "next"

\* _fetch_recordings: what follows _close_finder is `return recordings`.
AfterCloseFinder == "returned"

\* The end of _fetch_recordings: the finder is closed and the list returned.
CloseFinder(destroy_ok) ==
    /\ s_pc = "close"
    /\ requests' = Append(requests, Request("destroy", object_id, destroy_ok))
    /\ IF CloseFinderError(destroy_ok) # NoError
       THEN /\ s_pc' = "raised"
            /\ s_error' = CloseFinderError(destroy_ok)
            /\ UNCHANGED s_result
       ELSE /\ s_pc' = AfterCloseFinder
            /\ s_result' = s_recordings
            /\ UNCHANGED s_error
    /\ UNCHANGED <<time_range, channel, object_id, create_text, find_text, batches,
                   s_recordings>>
    /\ UNCHANGED <<dlvars, taskvars, loopvars, nvars, pvars>>

\* ------------------------------------------ _parse_recordings, line by line
F_Type == <<84, 121, 112, 101>>
\* The path of the entry with the given index: "/a.mp4", "/b.mp4", ...
PathOf(index) == <<47, 97 + index, 46, 109, 112, 52>>
\* A path that is no video: "/a.jpg", "/b.jpg", ...
JpgPathOf(index) == <<47, 97 + index, 46, 106, 112, 103>>

\* The line of one field of the entry with the given index. The entry with
\* index i starts at second i, ends at second i + 1 and is of channel i + 1.
FieldLine(index, tag) ==
    CASE tag = "Channel" -> Item(index, F_Channel, Digits(index + 1))
      [] tag = "BadChannel" -> Item(index, F_Channel, <<120>>)
      [] tag = "EndTime" -> Item(index, F_EndTime, StrftimeAmcrest(index + 1))
      [] tag = "StartTime" -> Item(index, F_StartTime, StrftimeAmcrest(index))
      [] tag = "FilePath" -> Item(index, F_FilePath, PathOf(index))
      [] tag = "JpgPath" -> Item(index, F_FilePath, JpgPathOf(index))
      [] tag = "Duration" -> Item(index, F_Duration, <<53>>)
      [] tag = "Type" -> Item(index, F_Type, <<100, 97, 118>>)

\* The fields an entry may list, in the order it lists them.
EntryShapes ==
    { <<"Channel", "EndTime", "FilePath", "StartTime">>,
      <<"Channel", "Duration", "EndTime", "FilePath", "StartTime", "Type">>,
      <<"FilePath", "StartTime", "EndTime", "Channel">>,
      <<"EndTime", "StartTime", "FilePath">>,
      <<"FilePath", "StartTime">>,
      <<"FilePath">>,
      <<"EndTime", "StartTime">>,
      <<"EndTime", "JpgPath", "StartTime">>,
      <<"BadChannel", "FilePath">> }

\* Responses of up to MaxTime + 1 entries, with indices from 0.
EntryLists == UNION {[1 .. n -> EntryShapes] : n \in 0 .. (MaxTime + 1)}

RECURSIVE EntryLines(_, _)
\* The lines of the entries from the k-th on.
EntryLines(entries, k) ==
    IF k > Len(entries) THEN <<>>
    ELSE [j \in 1 .. Len(entries[k]) |-> FieldLine(k - 1, entries[k][j])]
             \o EntryLines(entries, k + 1)

\* The response text: "found=<n>" and the lines of the entries.
Render(entries) == << Found(Digits(Len(entries))) >> \o EntryLines(entries, 1)

\* _parse_recordings is called with the response text.
ParseBegin(entries) ==
    /\ p_pc = "idle"
    /\ p_pc' = "loop"
    /\ p_entries' = entries
    /\ p_lines' = Render(entries)
    /\ p_pos' = 1
    /\ p_current_file' = EmptyDict
    /\ p_recordings' = <<>>
    /\ p_cuts' = <<>>
    /\ UNCHANGED <<dlvars, taskvars, loopvars, svars, nvars>>

\* One pass of the loop of _parse_recordings.
ParseLine ==
    /\ p_pc = "loop"
    /\ p_pos <= Len(p_lines)
    /\ LET line == Strip(p_lines[p_pos])
       IN  IF line = <<>> \/ StartsWith(line, K_found)
           THEN /\ p_pos' = p_pos + 1
                /\ UNCHANGED <<p_pc, p_current_file, p_recordings, p_cuts>>
           ELSE LET cut == IsBoundary(line, p_current_file)
                    cur1 == IF cut THEN EmptyDict ELSE p_current_file
                    kv == ParseRecordingLine(line)
                IN  /\ p_recordings' = IF cut THEN Finalize(p_current_file, p_recordings)
                                       ELSE p_recordings
                    /\ p_cuts' = IF cut THEN Append(p_cuts, p_pos) ELSE p_cuts
                    /\ IF kv.err
                       THEN /\ p_pc' = "raised"
                            /\ p_current_file' = cur1
                            /\ UNCHANGED p_pos
                       ELSE /\ p_current_file' = IF kv.key # None
                                               THEN DictSet(cur1, kv.key, kv.value)
                                               ELSE cur1
                            /\ p_pos' = p_pos + 1
                            /\ UNCHANGED p_pc
    /\ UNCHANGED <<p_entries, p_lines>>
    /\ UNCHANGED <<dlvars, taskvars, loopvars, svars, nvars>>

\* The flush after the loop, and the return.
ParseFlush ==
    /\ p_pc = "loop"
    /\ p_pos > Len(p_lines)
    /\ p_pc' = "done"
    /\ p_recordings' = IF IsCompleteRecording(p_current_file)
                       THEN Finalize(p_current_file, p_recordings) ELSE p_recordings
    /\ p_cuts' = IF IsCompleteRecording(p_current_file) THEN Append(p_cuts, p_pos) ELSE p_cuts
    /\ UNCHANGED <<p_entries, p_lines, p_pos, p_current_file>>
    /\ UNCHANGED <<dlvars, taskvars, loopvars, svars, nvars>>

\* ------------------------------------------------------------ download_all
\* Mutant of IsEmptyInput: the early return for an empty input is missing.
IsEmptyInputNever(recs) == FALSE

\* `if not recordings`
IsEmptyInput(recs) == Len(recs) = 0

\* Mutant of MaySpawnThread: the pool is not bounded by max_concurrent.
MaySpawnThreadUnbounded(n, c) == TRUE

\* ThreadPoolExecutor(max_workers=c): submit starts a new worker thread only
\* while fewer than max_workers exist.
MaySpawnThread(n, c) == n < c

\* What is found at a destination path: nothing, the file of an earlier run,
\* or the file this call wrote, holding so many chunks of the payload.
Absent == [state |-> "absent", chunks |-> 0]
Stale == [state |-> "stale", chunks |-> 0]
Written(n) == [state |-> "written", chunks |-> n]

\* Mutant of NextCompleted: an increment after the first one is lost, as when
\* two threads read the counter before either writes it back.
NextCompletedLost(count, success) == IF count = 0 THEN 1 ELSE count

\* Mutant of NextCompleted: only successful tasks advance the counter.
NextCompletedOnSuccess(count, success) == IF success THEN count + 1 ELSE count

\* `completed += 1`, whatever the task's result was
NextCompleted(count, success) == count + 1

\* future.result() re-raises what the task raised ...
TaskRaised(st) == st = "done_err"
\* Mutant of EscapesLoop: the loop has no except clause.
EscapesLoopUncaught(st) == TaskRaised(st)

\* ... and `except Exception: pass` keeps it inside the loop.
EscapesLoop(st) == FALSE

InFlight == {i \in Tasks : status[i] = "running"}
Finished(i) == status[i] \in {"done_ok", "done_false", "done_err"}

\* Leaving download_all: `return sorted(downloaded_files)`, or the exception
\* in flight propagates to the caller.
Exit(exc) ==
    /\ pending_exc' = exc
    /\ IF exc = None
       THEN dl_pc' = "returned" /\ result' = Sorted(downloaded_files)
       ELSE dl_pc' = "raised" /\ result' = result

\* The finally block of _await_completion, entered with exception exc in
\* flight (None on the normal path) and the local `executor` as given.
Finally(exc, ex) ==
    IF ex # None
    THEN dl_pc' = "shutdown" /\ pending_exc' = exc /\ result' = result
    ELSE Exit(exc)

\* download_all is called with a sequence of recordings.
DownloadAll(recs, c) ==
    /\ dl_pc = "idle"
    /\ recordings' = recs
    /\ max_concurrent' = c
    /\ IF IsEmptyInput(recs)
       THEN /\ dl_pc' = "returned"
            /\ result' = <<>>
            /\ UNCHANGED <<dir_created, pool_created>>
       ELSE /\ dir_created' = TRUE
            /\ pool_created' = TRUE
            /\ dl_pc' = "submit"
            /\ result' = result
    /\ UNCHANGED <<threads, work_queue, submitted, executor, yielded, downloaded_files,
                   completed, total, pending_exc, progress_log>>
    /\ UNCHANGED taskvars
    /\ UNCHANGED <<loopvars, svars, nvars, pvars>>

\* One iteration of the submit loop: executor.submit for the next recording.
SubmitTask ==
    /\ dl_pc = "submit"
    /\ submitted < Len(recordings)
    /\ status' = [status EXCEPT ![submitted] = "queued"]
    /\ work_queue' = Append(work_queue, submitted)
    /\ threads' = IF MaySpawnThread(threads, max_concurrent) THEN threads + 1 ELSE threads
    /\ submitted' = submitted + 1
    /\ UNCHANGED <<dl_pc, recordings, max_concurrent, dir_created, pool_created, executor,
                   yielded, downloaded_files, completed, total, pending_exc, progress_log,
                   result>>
    /\ UNCHANGED <<attempt, outcomes, written, file>>
    /\ UNCHANGED <<loopvars, svars, nvars, pvars>>

\* The submit loop is over: _await_completion starts.
BeginAwait ==
    /\ dl_pc = "submit"
    /\ submitted = Len(recordings)
    /\ downloaded_files' = <<>>
    /\ completed' = 0
    /\ total' = submitted
    /\ executor' = None
    /\ dl_pc' = "await"
    /\ UNCHANGED <<recordings, max_concurrent, dir_created, pool_created, threads,
                   work_queue, submitted, yielded, pending_exc, progress_log, result>>
    /\ UNCHANGED taskvars
    /\ UNCHANGED <<loopvars, svars, nvars, pvars>>

\* KeyboardInterrupt in the calling thread during the submit loop: nothing
\* catches it below download_all's caller.
InterruptSubmit ==
    /\ dl_pc = "submit"
    /\ Exit("KeyboardInterrupt")
    /\ UNCHANGED <<recordings, max_concurrent, dir_created, pool_created, threads,
                   work_queue, submitted, executor, yielded, downloaded_files, completed,
                   total, progress_log>>
    /\ UNCHANGED taskvars
    /\ UNCHANGED <<loopvars, svars, nvars, pvars>>

\* as_completed yields the finished future of task i; its result is handled,
\* the counter advanced and the progress sink called (it may raise).
AwaitNext(i, sink_raises) ==
    /\ dl_pc = "await"
    /\ i \in Indices(recordings) \ yielded
    /\ Finished(i)
    /\ executor' = "pool"
    /\ yielded' = yielded \cup {i}
    /\ IF EscapesLoop(status[i])
       THEN /\ Finally("TaskError", "pool")
            /\ UNCHANGED <<downloaded_files, completed, progress_log>>
       ELSE /\ downloaded_files' = IF status[i] = "done_ok"
                                   THEN Append(downloaded_files, OutputFile(i))
                                   ELSE downloaded_files
            /\ completed' = NextCompleted(completed, status[i] = "done_ok")
            /\ progress_log' = Append(progress_log, <<completed', total>>)
            /\ IF sink_raises
               THEN Finally("SinkError", "pool")
               ELSE UNCHANGED <<dl_pc, pending_exc, result>>
    /\ UNCHANGED <<recordings, max_concurrent, dir_created, pool_created, threads,
                   work_queue, submitted, total>>
    /\ UNCHANGED taskvars
    /\ UNCHANGED <<loopvars, svars, nvars, pvars>>

\* The loop of _await_completion statement by statement: as_completed yields
\* the finished future of task i to the calling thread.
TakeFuture(i) ==
    /\ dl_pc = "await"
    /\ i \in Indices(recordings) \ yielded
    /\ Finished(i)
    /\ executor' = "pool"
    /\ yielded' = yielded \cup {i}
    /\ future' = i
    /\ dl_pc' = "handle"
    /\ UNCHANGED <<recordings, max_concurrent, dir_created, pool_created, threads,
                   work_queue, submitted, downloaded_files, completed, total,
                   pending_exc, progress_log, result>>
    /\ UNCHANGED taskvars
    /\ UNCHANGED <<svars, nvars, pvars>>

\* The calling thread handles the result, advances the counter and calls the
\* progress sink.
HandleResult ==
    /\ dl_pc = "handle"
    /\ IF EscapesLoop(status[future])
       THEN /\ Finally("TaskError", "pool")
            /\ future' = -1
            /\ UNCHANGED <<downloaded_files, completed, progress_log>>
       ELSE /\ downloaded_files' = IF status[future] = "done_ok"
                                   THEN Append(downloaded_files, OutputFile(future))
                                   ELSE downloaded_files
            /\ completed' = NextCompleted(completed, status[future] = "done_ok")
            /\ progress_log' = Append(progress_log, <<completed', total>>)
            /\ dl_pc' = "sink"
            /\ UNCHANGED <<future, pending_exc, result>>
    /\ UNCHANGED <<recordings, max_concurrent, dir_created, pool_created, threads,
                   work_queue, submitted, executor, yielded, total>>
    /\ UNCHANGED taskvars
    /\ UNCHANGED <<svars, nvars, pvars>>

\* The progress sink returns to the calling thread, or raises.
SinkReturn(sink_raises) ==
    /\ dl_pc = "sink"
    /\ future' = -1
    /\ IF sink_raises
       THEN Finally("SinkError", "pool")
       ELSE dl_pc' = "await" /\ UNCHANGED <<pending_exc, result>>
    /\ UNCHANGED <<recordings, max_concurrent, dir_created, pool_created, threads,
                   work_queue, submitted, executor, yielded, downloaded_files, completed,
                   total, progress_log>>
    /\ UNCHANGED taskvars
    /\ UNCHANGED <<svars, nvars, pvars>>

\* as_completed is exhausted: the finally block runs on the normal path.
EndAwait ==
    /\ dl_pc = "await"
    /\ yielded = Indices(recordings)
    /\ Finally(None, executor)
    /\ UNCHANGED <<recordings, max_concurrent, dir_created, pool_created, threads,
                   work_queue, submitted, executor, yielded, downloaded_files, completed,
                   total, progress_log>>
    /\ UNCHANGED taskvars
    /\ UNCHANGED <<loopvars, svars, nvars, pvars>>

\* KeyboardInterrupt in the calling thread while it waits in as_completed.
InterruptAwait ==
    /\ dl_pc = "await"
    /\ Finally("KeyboardInterrupt", executor)
    /\ UNCHANGED <<recordings, max_concurrent, dir_created, pool_created, threads,
                   work_queue, submitted, executor, yielded, downloaded_files, completed,
                   total, progress_log>>
    /\ UNCHANGED taskvars
    /\ UNCHANGED <<loopvars, svars, nvars, pvars>>

\* executor.shutdown(wait=True) returns once every queued task has run and
\* every worker thread has exited.
Shutdown ==
    /\ dl_pc = "shutdown"
    /\ work_queue = <<>>
    /\ InFlight = {}
    /\ threads' = 0
    /\ Exit(pending_exc)
    /\ UNCHANGED <<recordings, max_concurrent, dir_created, pool_created, work_queue,
                   submitted, executor, yielded, downloaded_files, completed, total,
                   progress_log>>
    /\ UNCHANGED taskvars
    /\ UNCHANGED <<loopvars, svars, nvars, pvars>>

\* KeyboardInterrupt while shutdown(wait=True) joins the worker threads.
InterruptShutdown ==
    /\ dl_pc = "shutdown"
    /\ Exit("KeyboardInterrupt")
    /\ UNCHANGED <<recordings, max_concurrent, dir_created, pool_created, threads,
                   work_queue, submitted, executor, yielded, downloaded_files, completed,
                   total, progress_log>>
    /\ UNCHANGED taskvars
    /\ UNCHANGED <<loopvars, svars, nvars, pvars>>

\* ------------------------------------------------------------ worker side
\* An idle worker thread takes the oldest queued task and enters
\* _download_with_retry.
StartTask ==
    /\ work_queue # <<>>
    /\ Cardinality(InFlight) < threads
    /\ status' = [status EXCEPT ![Head(work_queue)] = "running"]
    /\ attempt' = [attempt EXCEPT ![Head(work_queue)] = 0]
    /\ written' = [written EXCEPT ![Head(work_queue)] = -1]
    /\ work_queue' = Tail(work_queue)
    /\ UNCHANGED <<outcomes, file>>
    /\ UNCHANGED <<dl_pc, recordings, max_concurrent, dir_created, pool_created, threads,
                   submitted, executor, yielded, downloaded_files, completed, total,
                   pending_exc, progress_log, result>>
    /\ UNCHANGED <<loopvars, svars, nvars, pvars>>

\* download_recording: the response arrived with a success status, the parent
\* directory exists and the destination is opened for writing (truncated).
FetchOpen(i) ==
    /\ status[i] = "running"
    /\ written[i] = -1
    /\ written' = [written EXCEPT ![i] = 0]
    /\ file' = [file EXCEPT ![i] = Written(0)]
    /\ UNCHANGED <<status, attempt, outcomes>>
    /\ UNCHANGED dlvars
    /\ UNCHANGED <<loopvars, svars, nvars, pvars>>

\* download_recording: one more chunk is written.
FetchWrite(i) ==
    /\ status[i] = "running"
    /\ written[i] >= 0
    /\ written[i] < NumChunks
    /\ written' = [written EXCEPT ![i] = written[i] + 1]
    /\ file' = [file EXCEPT ![i] = Written(file[i].chunks + 1)]
    /\ UNCHANGED <<status, attempt, outcomes>>
    /\ UNCHANGED dlvars
    /\ UNCHANGED <<loopvars, svars, nvars, pvars>>

\* download_recording: the stream ended, the file is closed, True is returned,
\* and _download_with_retry returns it.
FetchReturn(i) ==
    /\ status[i] = "running"
    /\ written[i] = NumChunks
    /\ outcomes' = [outcomes EXCEPT ![i] = Append(outcomes[i], "ok")]
    /\ status' = [status EXCEPT ![i] = "done_ok"]
    /\ UNCHANGED <<attempt, written, file>>
    /\ UNCHANGED dlvars
    /\ UNCHANGED <<loopvars, svars, nvars, pvars>>

\* Mutant of CleanupOnFailure: the destination is not removed.
CleanupOnFailureMissing(f) == f

\* `if output_path.exists(): output_path.unlink()`
CleanupOnFailure(f) == IF f.state # "absent" THEN Absent ELSE f

\* Mutant of IsLastAttempt: off by one, the task gives up an attempt early.
IsLastAttemptEarly(a) == a = DEFAULT_MAX_RETRIES - 2

\* `if attempt == self.DEFAULT_MAX_RETRIES - 1: raise`
IsLastAttempt(a) == a = DEFAULT_MAX_RETRIES - 1

\* download_recording raises (request, status check, mkdir, open, a chunk or
\* the close failed): the except clause removes the destination and re-raises;
\* _download_with_retry re-raises on the last attempt and loops otherwise.
FetchFail(i) ==
    /\ status[i] = "running"
    /\ file' = [file EXCEPT ![i] = CleanupOnFailure(file[i])]
    /\ outcomes' = [outcomes EXCEPT ![i] = Append(outcomes[i], "fail")]
    /\ IF IsLastAttempt(attempt[i])
       THEN /\ status' = [status EXCEPT ![i] = "done_err"]
            /\ UNCHANGED <<attempt, written>>
       ELSE IF attempt[i] + 1 < DEFAULT_MAX_RETRIES
       THEN /\ attempt' = [attempt EXCEPT ![i] = attempt[i] + 1]
            /\ written' = [written EXCEPT ![i] = -1]
            /\ UNCHANGED status
       ELSE /\ status' = [status EXCEPT ![i] = "done_false"]
            /\ UNCHANGED <<attempt, written>>
    /\ UNCHANGED dlvars
    /\ UNCHANGED <<loopvars, svars, nvars, pvars>>

\* ------------------------------------------- file names of a long sequence
RECURSIVE Pow10(_)
Pow10(k) == IF k = 0 THEN 1 ELSE 10 * Pow10(k - 1)

\* Positions in the input around every change of the number of digits.
IndexSamples == UNION {{Pow10(k) - 1, Pow10(k)} : k \in 0 .. (MaxIndexDigits - 1)}

\* _submit_download_tasks derives the output files of the recordings at
\* positions i < j of one input sequence.
NameTasks(i, j, ti, tj) ==
    /\ n_pc = "idle"
    /\ i < j
    /\ n_index' = <<i, j>>
    /\ n_files' = <<GenerateFilename(ti, i), GenerateFilename(tj, j)>>
    /\ n_pc' = "named"
    /\ UNCHANGED <<n_downloaded, n_result>>
    /\ UNCHANGED <<dlvars, taskvars, loopvars, svars, pvars>>

\* _await_completion: both tasks succeeded; the one that completed first is
\* appended first.
CollectNames(first) ==
    /\ n_pc = "named"
    /\ n_downloaded' = <<n_files[first], n_files[3 - first]>>
    /\ n_pc' = "collected"
    /\ UNCHANGED <<n_index, n_files, n_result>>
    /\ UNCHANGED <<dlvars, taskvars, loopvars, svars, pvars>>

\* download_all: `return sorted(downloaded_files)`
SortNames ==
    /\ n_pc = "collected"
    /\ n_result' = Sorted(n_downloaded)
    /\ n_pc' = "sorted"
    /\ UNCHANGED <<n_index, n_files, n_downloaded>>
    /\ UNCHANGED <<dlvars, taskvars, loopvars, svars, pvars>>

\* ------------------------------------------------------------ specification
\* Input sequences: of every length up to MaxRecordings, with all start times
\* equal, or with start times that fall (cyclically) as the position rises.
RecordingSeqs ==
    UNION {{[k \in 1 .. n |-> t] : t \in 0 .. MaxStart}
             \cup {[k \in 1 .. n |-> (MaxStart + 1 - k) % (MaxStart + 1)]}
           : n \in 0 .. MaxRecordings}

DlInit ==
    /\ dl_pc = "idle"
    /\ recordings = <<>>
    /\ max_concurrent = 1
    /\ dir_created = FALSE
    /\ pool_created = FALSE
    /\ threads = 0
    /\ work_queue = <<>>
    /\ submitted = 0
    /\ executor = None
    /\ yielded = {}
    /\ downloaded_files = <<>>
    /\ completed = 0
    /\ total = 0
    /\ pending_exc = None
    /\ progress_log = <<>>
    /\ result = <<>>
    /\ status = [i \in Tasks |-> "new"]
    /\ attempt = [i \in Tasks |-> 0]
    /\ outcomes = [i \in Tasks |-> <<>>]
    /\ written = [i \in Tasks |-> -1]
    /\ future = -1

SearchInit ==
    /\ s_pc = "idle"
    /\ time_range = [start |-> [t |-> 0, tz |-> FALSE], end |-> [t |-> 0, tz |-> FALSE]]
    /\ channel = 0
    /\ requests = <<>>
    /\ object_id = <<>>
    /\ create_text = [seen |-> FALSE, lines |-> <<>>]
    /\ find_text = [seen |-> FALSE, text |-> <<>>]
    /\ batches = <<>>
    /\ s_recordings = <<>>
    /\ s_error = NoError
    /\ s_result = <<>>

NameInit ==
    /\ n_pc = "idle"
    /\ n_index = <<0, 0>>
    /\ n_files = <<>>
    /\ n_downloaded = <<>>
    /\ n_result = <<>>

ParseInit ==
    /\ p_pc = "idle"
    /\ p_entries = <<>>
    /\ p_lines = <<>>
    /\ p_pos = 1
    /\ p_current_file = EmptyDict
    /\ p_recordings = <<>>
    /\ p_cuts = <<>>

\* The destination directory is empty, or holds the files of an earlier run.
Init ==
    /\ DlInit
    /\ file \in {[i \in Tasks |-> Absent], [i \in Tasks |-> Stale]}
    /\ SearchInit
    /\ NameInit
    /\ ParseInit

Next ==
    \/ \E recs \in RecordingSeqs, c \in 1 .. MaxConcurrent : DownloadAll(recs, c)
    \/ SubmitTask
    \/ BeginAwait
    \/ InterruptSubmit
    \/ \E i \in Tasks, sink_raises \in BOOLEAN : AwaitNext(i, sink_raises)
    \/ EndAwait
    \/ InterruptAwait
    \/ Shutdown
    \/ InterruptShutdown
    \/ StartTask
    \/ \E i \in Tasks : FetchOpen(i)
    \/ \E i \in Tasks : FetchWrite(i)
    \/ \E i \in Tasks : FetchReturn(i)
    \/ \E i \in Tasks : FetchFail(i)

\* download_all, its pool and its tasks.
Spec == Init /\ [][Next]_vars

\* A step of a worker thread of the pool.
WorkerStep ==
    \/ StartTask
    \/ \E i \in Tasks : FetchOpen(i)
    \/ \E i \in Tasks : FetchWrite(i)
    \/ \E i \in Tasks : FetchReturn(i)
    \/ \E i \in Tasks : FetchFail(i)

\* Nothing has been called yet and the destination directory is empty.
CleanInit ==
    /\ DlInit
    /\ file = [i \in Tasks |-> Absent]
    /\ SearchInit
    /\ NameInit
    /\ ParseInit

\* download_all into an empty directory, with worker threads that keep
\* running while they have work: a thread that can take a task or continue a
\* fetch eventually does (every request carries a timeout).
FairSpec == CleanInit /\ [][Next]_vars /\ WF_vars(WorkerStep)

SearchNext ==
    \/ \E range \in TimeRanges, ch \in 0 .. MaxChannel, ok \in BOOLEAN, body \in CreateBodies :
          FindRecordings(range, ch, ok, body)
    \/ \E ok \in BOOLEAN, text \in FindTexts, destroy_ok \in BOOLEAN :
          InitiateSearch(ok, text, destroy_ok)
    \/ \E ok \in BOOLEAN, lines \in MoreBodies \cup EndBodies : CollectBatch(ok, lines)
    \/ \E destroy_ok \in BOOLEAN : CloseFinder(destroy_ok)

\* find_recordings against a device that answers each request or fails it.
SearchSpec == CleanInit /\ [][SearchNext]_vars

\* A step of a search under way: the pending request is answered (or fails)
\* and the calling thread runs on to its next request or to its end.
SearchStep ==
    \/ \E ok \in BOOLEAN, text \in FindTexts, destroy_ok \in BOOLEAN :
          InitiateSearch(ok, text, destroy_ok)
    \/ \E ok \in BOOLEAN, lines \in MoreBodies \cup EndBodies : CollectBatch(ok, lines)
    \/ \E destroy_ok \in BOOLEAN : CloseFinder(destroy_ok)

\* find_recordings against a device that answers or fails every request
\* (_get passes a timeout with each) and that, after MaxBatches findNextFile
\* requests, answers the next with a batch that ends the search.
SearchFairSpec == CleanInit /\ [][SearchNext]_vars /\ WF_vars(SearchStep)

NameNext ==
    \/ \E i \in IndexSamples, j \in IndexSamples, ti \in 0 .. MaxStart, tj \in 0 .. MaxStart :
          NameTasks(i, j, ti, tj)
    \/ \E first \in 1 .. 2 : CollectNames(first)
    \/ SortNames

\* The file names of two tasks of one call, from derivation to the sorted
\* result, for positions up to MaxIndexDigits digits long.
NameSpec == CleanInit /\ [][NameNext]_vars

SinkNext ==
    \/ \E recs \in RecordingSeqs, c \in 1 .. MaxConcurrent : DownloadAll(recs, c)
    \/ SubmitTask
    \/ BeginAwait
    \/ \E i \in Tasks : TakeFuture(i)
    \/ HandleResult
    \/ \E sink_raises \in BOOLEAN : SinkReturn(sink_raises)
    \/ EndAwait
    \/ Shutdown
    \/ StartTask
    \/ \E i \in Tasks : FetchOpen(i)
    \/ \E i \in Tasks : FetchWrite(i)
    \/ \E i \in Tasks : FetchReturn(i)
    \/ \E i \in Tasks : FetchFail(i)

\* download_all without interrupts, the body of the await loop taken one
\* statement at a time, so that the worker threads run while the calling
\* thread is between two statements or inside the progress sink.
SinkSpec == CleanInit /\ [][SinkNext]_vars

ParseNext ==
    \/ \E entries \in EntryLists : ParseBegin(entries)
    \/ ParseLine
    \/ ParseFlush

\* _parse_recordings on the responses of a device that lists the fields of
\* its entries in any of the orders of EntryShapes.
ParseSpec == CleanInit /\ [][ParseNext]_vars

\* ==================================================================== claims
DestroysFor(id) ==
    Cardinality({k \in 1 .. Len(requests) :
                    requests[k].action = "destroy" /\ requests[k].object = id})

\* C1: once find_recordings has obtained a cursor id and has returned or
\* raised, exactly one destroy request for that id has been issued, on every
\* exit path.
C1_ExactlyOneDestroy ==
    (s_pc \in {"returned", "raised"} /\ object_id # <<>>) => DestroysFor(object_id) = 1

\* C2: when download_all has returned or raised, no task is running or
\* queued and no worker thread of the pool is alive.
C2_PoolDrainedOnExit ==
    dl_pc \in {"returned", "raised"}
        => (InFlight = {} /\ work_queue = <<>> /\ threads = 0)

\* C3: at most max_concurrent tasks are in flight in every state, and every
\* queued task is eventually started: from some point on no task is waiting
\* in the queue (a task leaves the queue only by being started).
C3_BoundedInFlight ==
    /\ [](Cardinality(InFlight) <= max_concurrent)
    /\ <>[](\A i \in Tasks : status[i] # "queued")

\* C3 witness: more recordings than workers, every worker busy, a task queued.
C3_Witness ==
    /\ Len(recordings) > max_concurrent
    /\ Cardinality(InFlight) = max_concurrent
    /\ work_queue # <<>>

\* C4: a task makes between 1 and 3 attempts; every attempt but the last one
\* failed; it is a success exactly when its last attempt succeeded, and a
\* failure only after exactly 3 failed attempts.
C4_RetryDiscipline ==
    \A i \in Tasks :
        /\ Len(outcomes[i]) <= 3
        /\ \A k \in 1 .. (Len(outcomes[i]) - 1) : outcomes[i][k] = "fail"
        /\ status[i] = "running" => (attempt[i] = Len(outcomes[i]) /\ attempt[i] < 3)
        /\ status[i] = "running" => \A k \in 1 .. Len(outcomes[i]) : outcomes[i][k] = "fail"
        /\ Finished(i) => Len(outcomes[i]) >= 1
        /\ status[i] = "done_ok" <=>
               (outcomes[i] # <<>> /\ outcomes[i][Len(outcomes[i])] = "ok")
        /\ (Finished(i) /\ status[i] # "done_ok") <=> outcomes[i] = <<"fail", "fail", "fail">>
        /\ status[i] \in {"new", "queued"} => outcomes[i] = <<>>

\* C4 witness: a task that failed twice and then succeeded.
C4_Witness == \E i \in Tasks : status[i] = "done_ok" /\ outcomes[i] = <<"fail", "fail", "ok">>

\* C5: after a fetch has finished the destination is absent (the fetch
\* failed) or holds the whole payload (it succeeded); a file that holds part
\* of the payload exists only while a fetch is writing it.
C5_AbsentOrComplete ==
    \A i \in Tasks :
        /\ status[i] = "done_ok" => file[i] = [state |-> "written", chunks |-> NumChunks]
        /\ (Finished(i) /\ status[i] # "done_ok") => file[i].state = "absent"
        /\ (status[i] = "running" /\ written[i] = -1 /\ outcomes[i] # <<>>)
               => file[i].state = "absent"
        /\ (file[i].state = "written" /\ file[i].chunks < NumChunks)
               => (status[i] = "running" /\ written[i] >= 0)

\* C5 witness: a task gave up after three failed fetches in a directory that
\* held the files of an earlier run, and nothing is left at its destination.
C5_Witness ==
    \E i \in Tasks :
        /\ status[i] = "done_err"
        /\ file[i].state = "absent"
        /\ \E j \in Tasks : file[j].state = "stale"

\* C6: the progress sink is called once per handled task, the k-th call with
\* (k, N); after a download_all that ran to completion it has been called
\* exactly N times, whether the tasks succeeded or failed.
C6_ProgressPerTask ==
    /\ Len(progress_log) = Cardinality(yielded)
    /\ \A k \in 1 .. Len(progress_log) : progress_log[k] = <<k, Len(recordings)>>
    /\ dl_pc = "returned" => Len(progress_log) = Len(recordings)

\* C6 witness: a completed call in which a task failed and a task succeeded.
C6_Witness ==
    /\ dl_pc = "returned"
    /\ Len(progress_log) = 2
    /\ \E i, j \in Tasks : status[i] = "done_err" /\ status[j] = "done_ok"

\* C7: the sorted result lists the output files in the order of their
\* recordings in the input, whatever the order the tasks completed in and
\* however long the input is.
C7_SortedIsInputOrder == n_pc = "sorted" => n_result = n_files

InResult(path) == \E k \in 1 .. Len(result) : result[k] = path

\* C8: a task that exhausted its retries is never what download_all raises,
\* and a download_all that returned has waited for every task and returns
\* the output file of every task that succeeded.
C8_FailureContained ==
    /\ dl_pc \in {"shutdown", "raised"} => pending_exc \in {None, "KeyboardInterrupt", "SinkError"}
    /\ dl_pc = "returned" =>
           \A i \in Indices(recordings) :
               /\ Finished(i)
               /\ status[i] = "done_ok" => InResult(OutputFile(i))
               /\ status[i] # "done_ok" => ~InResult(OutputFile(i))

\* C8 witness: download_all returned the file of the task that succeeded
\* although another task had exhausted its retries.
C8_Witness ==
    /\ dl_pc = "returned"
    /\ \E i, j \in Indices(recordings) :
           /\ status[i] = "done_err"
           /\ status[j] = "done_ok"
           /\ result = <<OutputFile(j)>>

\* C9: the call of download_all with an empty sequence returns the empty
\* list and changes nothing else: no directory, no pool, no task, no fetch,
\* no call of the progress sink.
C9_EmptyInputFrame ==
    [][(dl_pc = "idle" /\ dl_pc' # "idle" /\ recordings' = <<>>)
           => /\ dl_pc' = "returned"
              /\ result' = <<>>
              /\ UNCHANGED <<dir_created, pool_created, threads, work_queue, submitted,
                             executor, yielded, downloaded_files, completed, total,
                             pending_exc, progress_log>>
              /\ UNCHANGED taskvars]_vars

\* C9 witness: download_all has returned for an empty input.
C9_Witness ==
    /\ dl_pc = "returned"
    /\ recordings = <<>>
    /\ result = <<>>
    /\ ~dir_created

\* No "ok", "Ok", "oK" or "OK" anywhere in the text.
LacksOk(text) ==
    \A k \in 1 .. (Len(text) - 1) : ~(text[k] \in {111, 79} /\ text[k + 1] \in {107, 75})

\* C10: when the findFile response lacks "ok" in any letter case, the
\* requests sent are create, findFile, destroy (for the cursor) and no
\* findNextFile, and find_recordings has raised the search-failed error with
\* the response text, also when the destroy request failed.
C10_RejectedSearch ==
    /\ (find_text.seen /\ LacksOk(find_text.text)) =>
           /\ s_pc = "raised"
           /\ s_error = [kind |-> "SearchFailed", text |-> find_text.text]
           /\ Len(requests) = 3
           /\ requests[2].action = "findFile"
           /\ requests[3].action = "destroy"
           /\ requests[3].object = object_id
           /\ CountOf("findNextFile") = 0
    /\ s_error.kind = "SearchFailed" => (find_text.seen /\ LacksOk(find_text.text))

\* C10 witness: the search was rejected and the destroy request failed.
C10_Witness ==
    /\ find_text.seen
    /\ LacksOk(find_text.text)
    /\ s_error.kind = "SearchFailed"
    /\ Len(requests) = 3
    /\ ~requests[3].ok

\* No line of the body is "result=" followed by an id that is not blank.
NoCursorId(lines) ==
    \A k \in 1 .. Len(lines) :
        ~(/\ StartsWith(lines[k], K_result)
          /\ \E j \in (Len(K_result) + 1) .. Len(lines[k]) : ~IsSpace(lines[k][j]))

\* C11: when the create response has no line "result=<id>", or the id is
\* empty, find_recordings has raised the creation error and the create
\* request is the only request it sent: no findFile, no findNextFile, no
\* destroy. Nothing else raises that error.
C11_NoCursorNoRequest ==
    /\ (create_text.seen /\ NoCursorId(create_text.lines)) =>
           /\ s_pc = "raised"
           /\ s_error.kind = "CreateFailed"
           /\ Len(requests) = 1
           /\ requests[1].action = "factory.create"
    /\ s_error.kind = "CreateFailed" => (create_text.seen /\ NoCursorId(create_text.lines))

\* C11 witness: the create response was "result= ", an id of one blank.
C11_Witness ==
    /\ create_text.seen
    /\ create_text.lines = << K_result \o <<32>> >>
    /\ s_pc = "raised"
    /\ Len(requests) = 1

\* The leading line of a batch is no "found=<n>" with n a number above 0.
ReportsNone(lines) ==
    \/ lines = <<>>
    \/ LET first == Strip(lines[1])
           n == SubSeq(first, Len(K_found) + 1, Len(first))
       IN  \/ ~StartsWith(first, K_found)
           \/ n = <<>>
           \/ \E j \in 1 .. Len(n) : n[j] < 48 \/ n[j] > 57
           \/ \A j \in 1 .. Len(n) : n[j] = 48

\* The batch is one the loop is to stop at.
StopsAt(batch) == ReportsNone(batch.lines) \/ batch.recs = <<>>

RECURSIVE ConcatRecs(_)
\* The recordings of the batches, one batch after the other.
ConcatRecs(bs) == IF bs = <<>> THEN <<>> ELSE Head(bs).recs \o ConcatRecs(Tail(bs))

\* C12: the findNextFile requests are sent one after another; none is sent
\* after a batch that yields no recording, reports found=0 or has no
\* well-formed found line, and the loop has ended at such a batch; every
\* batch before it has added its recordings to the list.
C12_LoopStopsAtFirstEnd ==
    /\ \A k \in 1 .. (Len(batches) - 1) : ~StopsAt(batches[k])
    /\ (batches # <<>> /\ StopsAt(batches[Len(batches)])) => s_pc # "next"
    /\ (batches # <<>> /\ ~StopsAt(batches[Len(batches)])) => s_pc \in {"next", "raised"}
    /\ CountOf("findNextFile") \in {Len(batches), Len(batches) + 1}
    /\ CountOf("findNextFile") = Len(batches) + 1 => ~requests[Len(requests)].ok
    /\ s_pc \in {"next", "close", "returned"} => s_recordings = ConcatRecs(batches)

\* C12 witness: the loop ended at a second batch that reports one entry and
\* yields no recording, after a batch that added a recording.
C12_Witness ==
    /\ s_pc = "close"
    /\ Len(batches) = 2
    /\ batches[2].lines = BodyFiltered
    /\ s_recordings = batches[1].recs
    /\ s_recordings # <<>>

\* C13: a batch that reports entries (found=<n>, n > 0) and yields no
\* recording does not end the loop: the next batch is requested after it.
C13_ContinuesPastEmptyBatch ==
    \A k \in 1 .. Len(batches) :
        (~ReportsNone(batches[k].lines) /\ ~batches[k].err /\ batches[k].recs = <<>>)
            => \/ k < Len(batches)
               \/ s_pc = "next"
               \/ s_pc = "raised" /\ CountOf("findNextFile") = Len(batches) + 1

\* The entry lists the field.
HasTag(entry, tag) == \E j \in 1 .. Len(entry) : entry[j] = tag

RECURSIVE LinesBefore(_, _)
\* How many lines of p_lines come before the lines of the k-th entry.
LinesBefore(entries, k) ==
    IF k = 1 THEN 1 ELSE LinesBefore(entries, k - 1) + Len(entries[k - 1])

\* The entry (from 1) the line at pos belongs to; 0 for the found line.
EntryAt(pos) ==
    IF pos = 1 THEN 0
    ELSE CHOOSE k \in 1 .. Len(p_entries) :
             LinesBefore(p_entries, k) < pos /\ pos <= LinesBefore(p_entries, k) + Len(p_entries[k])

\* The recording of the k-th entry, of the fields the entry lists.
RecOf(k) ==
    [start_time |-> k - 1, end_time |-> k, file_path |-> PathOf(k - 1),
     channel |-> IF HasTag(p_entries[k], "Channel") THEN k ELSE 0]

\* How often the recording is in the list.
Times(rec, recs) == Cardinality({j \in 1 .. Len(recs) : recs[j] = rec})

\* C14: an entry is made final only at the first line of another entry index
\* (or by the flush at the end), never at a further field line of its own
\* index; so an entry that lists a file path, a start time and an end time,
\* in whatever order, is in the result exactly once, with all its fields.
C14_FinalOnlyAtIndexBoundary ==
    /\ \A c \in 1 .. Len(p_cuts) :
           \/ p_cuts[c] = Len(p_lines) + 1
           \/ EntryAt(p_cuts[c]) # EntryAt(p_cuts[c] - 1)
    /\ p_pc = "done" =>
           \A k \in 1 .. Len(p_entries) :
               (/\ HasTag(p_entries[k], "FilePath")
                /\ HasTag(p_entries[k], "StartTime")
                /\ HasTag(p_entries[k], "EndTime"))
                   => Times(RecOf(k), p_recordings) = 1

\* C15: an entry that lists a file path and a start time, and no end time,
\* is complete and is in the result as a recording of that path and start.
C15_OptionalFieldsMayMiss ==
    p_pc = "done" =>
        \A k \in 1 .. Len(p_entries) :
            (/\ HasTag(p_entries[k], "FilePath")
             /\ HasTag(p_entries[k], "StartTime")
             /\ ~HasTag(p_entries[k], "EndTime"))
                => \E j \in 1 .. Len(p_recordings) :
                       /\ p_recordings[j].file_path = PathOf(k - 1)
                       /\ p_recordings[j].start_time = k - 1

\* C16: the parser does not raise, and every recording of the result has all
\* its fields from the lines of one entry, which lists a file path and a
\* start time: an entry without one of them gives no recording and none of
\* its values is in the recording of another entry.
C16_IncompleteEntryDropped ==
    /\ p_pc # "raised"
    /\ \A j \in 1 .. Len(p_recordings) :
           \E k \in 1 .. Len(p_entries) :
               /\ HasTag(p_entries[k], "FilePath")
               /\ HasTag(p_entries[k], "StartTime")
               /\ HasTag(p_entries[k], "EndTime")
               /\ p_recordings[j] = RecOf(k)

IsPathLine(line) == Contains(line, K_FilePath)

\* The file paths the device reports in a batch, in the order of its lines.
PathLines(lines) ==
    LET sel == SelectSeq(lines, IsPathLine)
    IN  [j \in 1 .. Len(sel) |-> AfterEq(sel[j])]

RECURSIVE ReportedPaths(_)
\* The file paths the device reported, batch after batch.
ReportedPaths(bs) ==
    IF bs = <<>> THEN <<>> ELSE PathLines(Head(bs).lines) \o ReportedPaths(Tail(bs))

RECURSIVE IsSubseq(_, _)
\* a is b with some elements left out.
IsSubseq(a, b) ==
    IF a = <<>> THEN TRUE
    ELSE IF b = <<>> THEN FALSE
    ELSE IF Head(a) = Head(b) THEN IsSubseq(Tail(a), Tail(b))
    ELSE IsSubseq(a, Tail(b))

\* C17: what find_recordings returns is the recordings of the first batch,
\* then those of the second, and so on, each batch's recordings in the order
\* of their entries in the response: the paths of the result are the paths
\* the device reported, in that order, with some left out and none twice.
C17_DeviceOrderKept ==
    /\ s_pc = "returned" => s_result = ConcatRecs(batches)
    /\ s_pc = "returned" =>
           IsSubseq([j \in 1 .. Len(s_result) |-> s_result[j].file_path],
                    ReportedPaths(batches))
    /\ batches # <<>> =>
           LET last == batches[Len(batches)]
           IN  IsSubseq([j \in 1 .. Len(last.recs) |-> last.recs[j].file_path],
                        PathLines(last.lines))

\* C17 witness: a batch of two recordings, then a batch of one, then the end.
C17_Witness ==
    /\ s_pc = "returned"
    /\ Len(batches) = 3
    /\ batches[1].lines = BodyPair
    /\ batches[2].lines = BodyOne(1)
    /\ Len(s_result) = 3
    /\ s_result[1].file_path = P_a_mp4
    /\ s_result[2].file_path = P_b_mp4
    /\ s_result[3].start_time = 1

\* C19: once the destroy request that follows the pagination loop has been
\* sent, find_recordings has returned the whole accumulated list, empty or
\* not, whether that request succeeded or failed; the error of a failed
\* request that find_recordings raises is never that of a destroy request.
C19_DestroyFailureSwallowed ==
    LET last == requests[Len(requests)]
    IN  /\ (/\ requests # <<>>
             /\ last.action = "destroy"
             /\ find_text.seen
             /\ ~LacksOk(find_text.text))
                => /\ s_pc = "returned"
                   /\ s_error = NoError
                   /\ s_result = ConcatRecs(batches)
        /\ s_error = HTTPError => (last.action # "destroy" /\ ~last.ok)

\* C19 witness: the destroy request after the loop failed and the recordings
\* of the batches were returned.
C19_Witness ==
    /\ s_pc = "returned"
    /\ requests[Len(requests)].action = "destroy"
    /\ ~requests[Len(requests)].ok
    /\ s_result # <<>>
    /\ s_result = ConcatRecs(batches)

IsTimeLine(line) == Contains(line, K_StartTime) \/ Contains(line, K_EndTime)

\* The start and end times the device reports in a batch, as texts.
TimeTexts(lines) ==
    LET sel == SelectSeq(lines, IsTimeLine)
    IN  {AfterEq(sel[j]) : j \in 1 .. Len(sel)}

\* lo <= t <= hi for timestamps in the protocol's fixed-width format.
TextWithin(t, lo, hi) == ~StrLess(t, lo) /\ ~StrLess(hi, t)

\* The device answers the query it was sent: every time it reports lies in
\* the range of the findFile request.
DeviceHonoursRange ==
    \A k \in 1 .. Len(batches) :
        \A t \in TimeTexts(batches[k].lines) :
            TextWithin(t, requests[2].start, requests[2].end)

Handled == IF dl_pc = "handle" THEN yielded \ {future} ELSE yielded

\* C18: the progress sink, the counter and the list of successful paths are
\* touched by one thread only. No step of a worker thread changes them; while
\* one call of the sink is running no other call begins and nothing is
\* updated; each update counts one task and records one call. No update is
\* lost: the counter is the number of tasks handled, the list holds the
\* output file of every handled success once, and after the N tasks of a
\* completed call the counter is N.
C18_SinkAndCounterSerialized ==
    /\ [][WorkerStep => UNCHANGED <<completed, downloaded_files, progress_log>>]_vars
    /\ [][dl_pc = "sink" => UNCHANGED <<completed, downloaded_files, progress_log>>]_vars
    /\ [][progress_log' # progress_log =>
             /\ dl_pc = "handle"
             /\ completed' = completed + 1
             /\ progress_log' = Append(progress_log, <<completed + 1, Len(recordings)>>)]_vars
    /\ [](dl_pc \in {"await", "handle", "sink", "shutdown", "returned"} =>
             /\ completed = Cardinality(Handled)
             /\ Len(progress_log) = completed
             /\ \A i \in Indices(recordings) :
                    Times(OutputFile(i), downloaded_files) =
                        IF i \in Handled /\ status[i] = "done_ok" THEN 1 ELSE 0)
    /\ [](dl_pc = "returned" /\ recordings # <<>> => completed = Len(recordings))

\* C18 witness: the sink is running for one task while another task has
\* finished on a worker thread and waits to be handled.
C18_Witness ==
    /\ dl_pc = "sink"
    /\ \E j \in Indices(recordings) \ yielded : status[j] = "done_ok"
    /\ completed = 1

\* C21: the requests of one find_recordings call are, in this order, one
\* create, one findFile, any number of findNextFile, at most one destroy,
\* every one after the create for the cursor id of this call. A request is
\* sent only after the one before it was answered, and nothing is sent after
\* the destroy: no findFile and no findNextFile follows it.
C21_RequestOrder ==
    /\ requests # <<>> => requests[1].action = "factory.create"
    /\ Len(requests) >= 2 => requests[2].action = "findFile"
    /\ \A k \in 3 .. Len(requests) : requests[k].action \in {"findNextFile", "destroy"}
    /\ \A k \in 1 .. Len(requests) : requests[k].action = "destroy" => k = Len(requests)
    /\ \A k \in 2 .. Len(requests) : requests[k].object = object_id /\ object_id # <<>>
    /\ \A k \in 1 .. (Len(requests) - 1) : requests[k].ok

\* C21 witness: create, findFile, two findNextFile and the destroy, and the
\* call has returned.
C21_Witness ==
    /\ s_pc = "returned"
    /\ Len(requests) = 5
    /\ requests[3].action = "findNextFile"
    /\ requests[4].action = "findNextFile"
    /\ requests[5].action = "destroy"

\* The part of a file name after the index: "_<timestamp>.mp4".
AfterIndex(name) == SubSeq(name, Len(name) - 19, Len(name))

\* C22: the output files derived for two different positions of one input
\* sequence differ, also when the two recordings start at the same time and
\* when the index is wider than its padding; the sorted result of the two
\* tasks holds two different paths.
C22_PathsDistinct ==
    /\ n_pc # "idle" =>
           /\ n_index[1] # n_index[2]
           /\ n_files[1] # n_files[2]
    /\ n_pc = "collected" => n_downloaded[1] # n_downloaded[2]
    /\ n_pc = "sorted" => (Len(n_result) = 2 /\ n_result[1] # n_result[2])

\* C22 witness: positions 9999 and 10000 with equal start times.
C22_Witness ==
    /\ n_pc = "named"
    /\ n_index = <<9999, 10000>>
    /\ AfterIndex(n_files[1]) = AfterIndex(n_files[2])
    /\ n_files[1] # n_files[2]

\* C23: when every request is answered or fails and the device ends the list
\* after finitely many batches, the search ends (returned or raised); the
\* loop itself never ends the list: the destroy request follows findNextFile
\* requests only after a batch that reports none or yields no recording, and
\* after any number of batches that add recordings the loop asks again.
C23_EndsOnlyAtDeviceEnd ==
    /\ <>[](s_pc \in {"idle", "returned", "raised"})
    /\ [](/\ (CountOf("findNextFile") > 0 /\ CountOf("destroy") > 0)
               => (batches # <<>> /\ StopsAt(batches[Len(batches)]))
          /\ (/\ batches # <<>>
              /\ Len(batches) = CountOf("findNextFile")
              /\ \A k \in 1 .. Len(batches) : ~batches[k].err /\ ~StopsAt(batches[k]))
               => (s_pc = "next" /\ CountOf("destroy") = 0))

\* C23 witness: the search has returned after MaxBatches batches that added
\* recordings and one more batch that ended the list.
C23_Witness ==
    /\ s_pc = "returned"
    /\ Len(batches) = MaxBatches + 1
    /\ \A k \in 1 .. MaxBatches : batches[k].recs # <<>>
    /\ StopsAt(batches[MaxBatches + 1])
    /\ CountOf("destroy") = 1

====
